---------------------------- MODULE Spec2Model ----------------------------
(***************************************************************************)
(* A model of the Hearts simulator (src/src/simulator/simulator.ts) and of *)
(* the history interpreter (src/unnamed/part_001).                         *)
(*                                                                         *)
(* Numbers.  Rewards and qualities are kept in quarter units, so that the  *)
(* bonuses 0.5 and 0.25 of playRound are the integers 2 and 1 and the      *)
(* penalty -points is -4 * points.  Sums of multiples of 0.25 of this size *)
(* are exact in IEEE doubles, so the integer arithmetic is the arithmetic  *)
(* of the program.                                                         *)
(*                                                                         *)
(* Object identity.  The program compares players and cards with === on    *)
(* object references.  A player is identified here by its seat and a card  *)
(* by its (suit, rank) value: the deck holds one object per value.         *)
(***************************************************************************)
EXTENDS Integers, Sequences, FiniteSets, TLC

VARIABLES
    pc,          \* where playGame stands: "deal", "turn", "resolve", "terminate", "done", "failed"; "idle" outside a game
    input,       \* the arguments of playGame: the four policies, simplified, the seed of the random source
    random,      \* the state of the random source handed to playGame
    state,       \* the State value of playGame / playRound
    recorder,    \* per seat, the entries recorded by recordAction / assignReward
    round,       \* the i of playGame's `for (let i of range(13))`
    turn,        \* the i of playRound's `for (let i of range(4))`
    played,      \* the number of playCard calls made so far
    playLog,     \* the playCard calls made so far, in order: the actor's seat and the card
    tricks,      \* the tricks resolved so far, in order: leader, suit, cards, winning seat, rewards assigned
    result,      \* what playGame returned or threw
    runs,        \* the number of playGame calls completed before this one
    previous,    \* outcome of the previous playGame call
    call,        \* the argument of a function called on its own
    ret          \* its result

vars == << pc, input, random, state, recorder, round, turn, played, playLog,
           tricks, result, runs, previous, call, ret >>

-----------------------------------------------------------------------------
(* Bounds of the model *)

\* random sources are seeded with 0 .. MaxSeed
MaxSeed == 1

\* hands handed to validPlays on its own hold at most MaxHand cards
MaxHand == 3

\* tricks handed to trickWinner on its own hold at most MaxTrick cards
MaxTrick == 4

\* histories handed to interpretHistory on its own hold at most MaxHistory entries
MaxHistory == 3
MaxDealSeed == 149

-----------------------------------------------------------------------------
(* Cards *)

\* suit: number | null -- null is modelled by -1
Null == -1

clubs == 0
diamonds == 1
spades == 2
hearts == 3

Suits == {clubs, diamonds, spades, hearts}

Seats == 0 .. 3

\* for (let rank = 2; rank < 15; rank++)
Ranks == 2 .. 14

Card(suit, rank) == [suit |-> suit, rank |-> rank]

Cards == [suit : Suits, rank : Ranks]

\* the absent card (null)
NoCard == [suit |-> Null, rank |-> 0]

\* the k-th element (from 0) of a sequence, as the program indexes arrays
At(s, k) == s[k + 1]

Range(s) == {s[k] : k \in DOMAIN s}

RECURSIVE Filter(_, _)
\* array.filter(card => card \in keep), order kept
Filter(s, keep) ==
    IF s = << >> THEN << >>
    ELSE IF Head(s) \in keep THEN << Head(s) >> \o Filter(Tail(s), keep)
         ELSE Filter(Tail(s), keep)

-----------------------------------------------------------------------------
(* Rules engine *)

\* gets the number of points a single card is worth
cardPoints(card, simp) ==
    LET isHeart == card.suit = hearts
        isSpade == card.suit = spades
        isQueen == card.rank = 12
    IN  IF isHeart THEN 1
        ELSE IF ~simp /\ isQueen /\ isSpade THEN 13
        ELSE 0

RECURSIVE trickPointsOf(_, _)
trickPointsOf(cards, simp) ==
    IF cards = << >> THEN 0
    ELSE cardPoints(Head(cards), simp) + trickPointsOf(Tail(cards), simp)

\* gets the number of points present in an entire trick
trickPoints(trick, simp) == trickPointsOf(trick.cards, simp)

RECURSIVE trickWinnerFrom(_, _, _)
\* the reduce of trickWinner: the callback applied to cards left to right
trickWinnerFrom(winner, suit, cards) ==
    IF cards = << >> THEN winner
    ELSE LET card == Head(cards)
             next == IF /\ (card.suit = suit \/ suit = Null)
                        /\ (winner = NoCard \/ card.rank > winner.rank)
                     THEN card
                     ELSE winner
         IN  trickWinnerFrom(next, suit, Tail(cards))

RECURSIVE trickWinnerAnySuit(_, _, _)
\* a reduce that never looks at the suit
trickWinnerAnySuit(winner, suit, cards) ==
    IF cards = << >> THEN winner
    ELSE LET card == Head(cards)
             next == IF winner = NoCard \/ card.rank > winner.rank
                     THEN card
                     ELSE winner
         IN  trickWinnerAnySuit(next, suit, Tail(cards))

RECURSIVE trickWinnerNeverStarts(_, _, _)
\* a reduce whose test of the first winner is the wrong way round
trickWinnerNeverStarts(winner, suit, cards) ==
    IF cards = << >> THEN winner
    ELSE LET card == Head(cards)
             next == IF /\ (card.suit = suit \/ suit = Null)
                        /\ (winner # NoCard /\ card.rank > winner.rank)
                     THEN card
                     ELSE winner
         IN  trickWinnerNeverStarts(next, suit, Tail(cards))

trickWinner_neverStarts(trick) ==
    trickWinnerNeverStarts(NoCard, trick.suit, trick.cards)

trickWinner_anySuit(trick) == trickWinnerAnySuit(NoCard, trick.suit, trick.cards)

\* Selects the card which wins the trick
trickWinner(trick) == trickWinnerFrom(NoCard, trick.suit, trick.cards)

\* a validPlays without the must-follow-suit rule
validPlays_noFollow(st, hand) ==
    IF st.simplified \/ st.heartsBroken \/ st.trick.suit # Null THEN hand
    ELSE LET plays == Filter(hand, {c \in Range(hand) : cardPoints(c, st.simplified) = 0})
         IN  IF Len(plays) = 0 THEN hand ELSE plays

\* a validPlays that never lifts the restriction on leading point cards
validPlays_leadStrict(st, hand) ==
    LET suit == st.trick.suit
    IN  IF suit # Null
        THEN LET hasSuit == \E k \in DOMAIN hand : hand[k].suit = suit
             IN  IF hasSuit
                 THEN Filter(hand, {c \in Range(hand) : c.suit = suit})
                 ELSE hand
        ELSE IF st.simplified \/ st.heartsBroken
        THEN hand
        ELSE Filter(hand, {c \in Range(hand) : cardPoints(c, st.simplified) = 0})

\* Creates a list of all possible moves
validPlays(st, hand) ==
    LET suit == st.trick.suit
    IN  IF suit # Null
        THEN LET hasSuit == \E k \in DOMAIN hand : hand[k].suit = suit
             IN  IF hasSuit
                 THEN Filter(hand, {c \in Range(hand) : c.suit = suit})
                 ELSE hand
        ELSE IF st.simplified \/ st.heartsBroken
        THEN hand
        ELSE LET plays == Filter(hand, {c \in Range(hand) : cardPoints(c, st.simplified) = 0})
             IN  IF Len(plays) = 0 THEN hand ELSE plays

\* a search that looks at the rank alone
playerWithCard_anySuit(players, suit, rank) ==
    LET holders == {s \in DOMAIN players :
                      \E k \in DOMAIN players[s].hand :
                          players[s].hand[k].rank = rank}
    IN  IF holders = {} THEN Null
        ELSE CHOOSE s \in holders : \A t \in holders : s <= t

\* locates the player with a specific card: the first seat holding it, or Null
playerWithCard(players, suit, rank) ==
    LET holders == {s \in DOMAIN players :
                      \E k \in DOMAIN players[s].hand :
                          players[s].hand[k] = Card(suit, rank)}
    IN  IF holders = {} THEN Null
        ELSE CHOOSE s \in holders : \A t \in holders : s <= t

-----------------------------------------------------------------------------
(* Deck and deal *)

RECURSIVE freshDeckFrom(_)
freshDeckFrom(k) ==
    IF k = Cardinality(Suits) * Cardinality(Ranks) THEN << >>
    ELSE << Card(k \div Cardinality(Ranks), 2 + (k % Cardinality(Ranks))) >>
            \o freshDeckFrom(k + 1)

\* produces a new, sorted 52 card deck: suit by suit in the order of the keys
\* of `suits` (clubs, diamonds, spades, hearts), ranks 2 .. 14
freshDeck == freshDeckFrom(0)

\* The random source is a seeded generator: from state x it steps to
\* NextRandom(x) and returns NextRandom(x) / RandomModulus, a number of [0, 1).
RandomModulus == 65537

NextRandom(x) == (x * 75 + 74) % RandomModulus

\* (random() * deck.length) | 0, for the draw that leaves the source in state x
RandomIndex(x, length) == (x * length) \div RandomModulus

RECURSIVE shuffleFrom(_, _, _)
\* the loop of shuffleDeck from index i on
shuffleFrom(deck, i, x) ==
    IF i >= Len(deck) THEN [deck |-> deck, random |-> x]
    ELSE LET nx == NextRandom(x)
             j  == RandomIndex(nx, Len(deck))
             t  == At(deck, i)
             swapped == [deck EXCEPT ![i + 1] = At(deck, j), ![j + 1] = t]
         IN  shuffleFrom(swapped, i + 1, nx)

\* a shuffle that draws from the ambient source (Math.random), whatever it is handed
shuffleDeck_ambient(deck, x) == shuffleFrom(deck, 0, x + runs + 1)

\* ...shuffles a deck... ; yields the shuffled deck and the source's new state
shuffleDeck(deck, x) == shuffleFrom(deck, 0, x)

\* createPlayer(policy, hand)
createPlayer(hand) ==
    [hand |-> hand, score |-> 0, playsOutOfSuit |-> [s \in Suits |-> FALSE]]

\* deck.slice(seat * 13, (1 + seat) * 13)
Slice(deck, seat) == SubSeq(deck, seat * 13 + 1, (1 + seat) * 13)

-----------------------------------------------------------------------------
(* Policies *)

Compliant == {"first", "high", "low"}

PolicyKinds == Compliant \cup {"rogue", "mute", "tired", "thief"}

Summary(action, quality, trace) ==
    [action |-> action, quality |-> quality, trace |-> trace]

\* no ActionSummary (null)
NoPlay == Summary(NoCard, 0, 0)

\* policy(state, player, plays): the candidates the policy of kind `kind` returns
\*   first : every offered play, all of the same quality
\*   high  : every offered play, the quality growing with the rank
\*   low   : every offered play, the quality falling with the rank
\*   rogue : one card of its hand that was not offered, when there is one
\*   mute  : no candidate
\*   tired : as first for its first two decisions, then no candidate
\*   thief : the first card of the next seat's hand, when there is one
Policy(kind, st, seat, plays) ==
    LET hand == st.players[seat].hand
        other == {k \in DOMAIN hand : hand[k] \notin Range(plays)}
    IN  CASE kind = "first" -> [k \in DOMAIN plays |-> Summary(plays[k], 0, k)]
          [] kind = "high"  -> [k \in DOMAIN plays |-> Summary(plays[k], plays[k].rank, k)]
          [] kind = "low"   -> [k \in DOMAIN plays |-> Summary(plays[k], 0 - plays[k].rank, k)]
          [] kind = "rogue" ->
                IF other = {} THEN << Summary(plays[1], 0, 1) >>
                ELSE << Summary(hand[CHOOSE k \in other : \A l \in other : k <= l], 0, 0) >>
          [] kind = "tired" ->
                IF Len(hand) <= 11 THEN << >>
                ELSE [k \in DOMAIN plays |-> Summary(plays[k], 0, k)]
          [] kind = "thief" ->
                LET victim == st.players[(seat + 1) % 4].hand
                IN  IF victim = << >> THEN << Summary(plays[1], 0, 1) >>
                    ELSE << Summary(victim[1], 0, 0) >>
          [] OTHER -> << >>

RECURSIVE selectFrom(_, _)
\* the reduce of playRound over the policy's candidates
selectFrom(selection, summaries) ==
    IF summaries = << >> THEN selection
    ELSE LET summary == Head(summaries)
             next == IF selection = NoPlay \/ summary.quality > selection.quality
                     THEN summary
                     ELSE selection
         IN  selectFrom(next, Tail(summaries))

selectPlay(summaries) == selectFrom(NoPlay, summaries)

-----------------------------------------------------------------------------
(* The player's recorder: recordAction, assignReward, terminate *)

\* recordAction(state, action, quality, trace) appends one entry
recordAction(rec, actor, st, action, quality, trace) ==
    [rec EXCEPT ![actor] = Append(@,
        [terminal |-> FALSE, state |-> st, actor |-> actor, action |-> action,
         quality |-> quality, reward |-> 0, trace |-> trace])]

\* assignReward(amount) attaches the reward to the most recent entry
assignReward(entries, amount) ==
    IF entries = << >> THEN entries
    ELSE [entries EXCEPT ![Len(entries)].reward = amount]

\* terminate() seals the History: the entries in order, then the terminal entry
terminate(entries, seat, player) ==
    Append(entries, [terminal |-> TRUE, reward |-> 0,
                     actor |-> [seat |-> seat, score |-> player.score]])

-----------------------------------------------------------------------------
(* The game state machine *)

EmptyTrick == [suit |-> Null, cards |-> << >>]

\* the offered plays are the whole hand
offeredPlays_wholeHand(st, seat) == st.players[seat].hand

\* const plays = validPlays(state, player.hand)
offeredPlays(st, seat) == validPlays(st, st.players[seat].hand)

\* a playCard that leaves the played card in the hand
playCard_keepsCard(st, actor, summary) ==
    LET action == summary.action
        trick  == st.trick
    IN  [st EXCEPT
            !.trick = [suit  |-> IF trick.suit = Null THEN action.suit ELSE trick.suit,
                       cards |-> Append(trick.cards, action)],
            !.heartsBroken = st.heartsBroken \/ cardPoints(action, st.simplified) # 0]

\* a playCard whose heartsBroken tells of the played card alone
playCard_forgetsBroken(st, actor, summary) ==
    LET action == summary.action
        trick  == st.trick
    IN  [st EXCEPT
            !.players = [seat \in Seats |->
                IF seat = actor
                THEN [st.players[seat] EXCEPT
                        !.hand = Filter(@, Range(@) \ {action}),
                        !.playsOutOfSuit =
                            IF trick.suit # Null /\ trick.suit # action.suit
                            THEN [s \in Suits |-> IF s = trick.suit THEN TRUE ELSE @[s]]
                            ELSE @]
                ELSE st.players[seat]],
            !.trick = [suit  |-> IF trick.suit = Null THEN action.suit ELSE trick.suit,
                       cards |-> Append(trick.cards, action)],
            !.heartsBroken = cardPoints(action, st.simplified) # 0]

\* a playCard that marks the suit of the played card, not the suit led
playCard_marksPlayedSuit(st, actor, summary) ==
    LET action == summary.action
        trick  == st.trick
    IN  [st EXCEPT
            !.players = [seat \in Seats |->
                IF seat = actor
                THEN [st.players[seat] EXCEPT
                        !.hand = Filter(@, Range(@) \ {action}),
                        !.playsOutOfSuit =
                            IF trick.suit # Null /\ trick.suit # action.suit
                            THEN [s \in Suits |-> IF s = action.suit THEN TRUE ELSE @[s]]
                            ELSE @]
                ELSE st.players[seat]],
            !.trick = [suit  |-> IF trick.suit = Null THEN action.suit ELSE trick.suit,
                       cards |-> Append(trick.cards, action)],
            !.heartsBroken = st.heartsBroken \/ cardPoints(action, st.simplified) # 0]

\* a playCard that takes every card of the played rank out of the hand
playCard_dropsRank(st, actor, summary) ==
    LET action == summary.action
        trick  == st.trick
    IN  [st EXCEPT
            !.players = [seat \in Seats |->
                IF seat = actor
                THEN [st.players[seat] EXCEPT
                        !.hand = Filter(@, {c \in Range(@) : c.rank # action.rank}),
                        !.playsOutOfSuit =
                            IF trick.suit # Null /\ trick.suit # action.suit
                            THEN [s \in Suits |-> IF s = trick.suit THEN TRUE ELSE @[s]]
                            ELSE @]
                ELSE st.players[seat]],
            !.trick = [suit  |-> IF trick.suit = Null THEN action.suit ELSE trick.suit,
                       cards |-> Append(trick.cards, action)],
            !.heartsBroken = st.heartsBroken \/ cardPoints(action, st.simplified) # 0]

\* State reducer for playing a single card
playCard(st, actor, summary) ==
    LET action == summary.action
        trick  == st.trick
    IN  [st EXCEPT
            !.players = [seat \in Seats |->
                IF seat = actor
                THEN [st.players[seat] EXCEPT
                        !.hand = Filter(@, Range(@) \ {action}),
                        !.playsOutOfSuit =
                            IF trick.suit # Null /\ trick.suit # action.suit
                            THEN [s \in Suits |-> IF s = trick.suit THEN TRUE ELSE @[s]]
                            ELSE @]
                ELSE st.players[seat]],
            !.trick = [suit  |-> IF trick.suit = Null THEN action.suit ELSE trick.suit,
                       cards |-> Append(trick.cards, action)],
            !.heartsBroken = st.heartsBroken \/ cardPoints(action, st.simplified) # 0]

\* cards.indexOf(card): the first index (from 0) of card, or -1
indexOf(cards, card) ==
    LET at == {k \in DOMAIN cards : cards[k] = card}
    IN  IF at = {} THEN -1
        ELSE (CHOOSE k \in at : \A l \in at : k <= l) - 1

\* a winning seat that is the card's index, the leader left out
winningSeat_forgetsLeader(st) ==
    indexOf(st.trick.cards, trickWinner(st.trick)) % 4

\* the seat of the trick's winning card: (cardIndex + trickLeader) % 4
winningSeat(st) ==
    (indexOf(st.trick.cards, trickWinner(st.trick)) + st.trickLeader) % 4

\* a rewarding that leaves out the test points !== 0
rewardFor_noZeroCheck(st, seat) ==
    LET points == trickPoints(st.trick, st.simplified)
    IN  IF seat = winningSeat(st)
        THEN 0 - 4 * points
        ELSE IF st.simplified THEN 1 ELSE 2

\* the reward playRound assigns to `seat` at resolution, in quarter units
rewardFor(st, seat) ==
    LET points == trickPoints(st.trick, st.simplified)
    IN  IF points # 0 /\ seat = winningSeat(st)
        THEN 0 - 4 * points
        ELSE IF st.simplified THEN 1 ELSE 2

\* a resolution that scores the trick for the seat that led it
resolved_scoresLeader(st) ==
    LET points == trickPoints(st.trick, st.simplified)
    IN  [st EXCEPT
            !.trickLeader = winningSeat(st),
            !.trick = EmptyTrick,
            !.players = [seat \in Seats |->
                IF points # 0 /\ seat = st.trickLeader
                THEN [st.players[seat] EXCEPT !.score = @ + points]
                ELSE st.players[seat]]]

\* a resolution that overwrites the winner's score with the trick's points
resolved_overwritesScore(st) ==
    LET points == trickPoints(st.trick, st.simplified)
    IN  [st EXCEPT
            !.trickLeader = winningSeat(st),
            !.trick = EmptyTrick,
            !.players = [seat \in Seats |->
                IF points # 0 /\ seat = winningSeat(st)
                THEN [st.players[seat] EXCEPT !.score = points]
                ELSE st.players[seat]]]

\* the state playRound returns
resolved(st) ==
    LET points == trickPoints(st.trick, st.simplified)
    IN  [st EXCEPT
            !.trickLeader = winningSeat(st),
            !.trick = EmptyTrick,
            !.players = [seat \in Seats |->
                IF points # 0 /\ seat = winningSeat(st)
                THEN [st.players[seat] EXCEPT !.score = @ + points]
                ELSE st.players[seat]]]

\* the State before the deal: no hands yet
NoState ==
    [players |-> [seat \in Seats |-> createPlayer(<< >>)],
     trick |-> EmptyTrick, simplified |-> FALSE, heartsBroken |-> FALSE,
     trickLeader |-> 0]

NoRecorder == [seat \in Seats |-> << >>]

NoResult == [kind |-> "none"]

Threw(message) == [kind |-> "error", message |-> message]

Returned(value) == [kind |-> "value", value |-> value]

-----------------------------------------------------------------------------
(* playGame, step by step *)

\* the policies handed to playGame: at most one seat breaks the policy
\* contract, and beside a tired or thieving seat the three others are alike
Profiles ==
    {p \in [Seats -> PolicyKinds] :
        /\ Cardinality({seat \in Seats : p[seat] \notin Compliant}) <= 1
        /\ (\E seat \in Seats : p[seat] \in {"tired", "thief"})
              => Cardinality({p[seat] : seat \in Seats}) = 2}

Inputs == [policies : Profiles, simplified : BOOLEAN, seed : 0 .. MaxSeed]

NoCall == [fn |-> "none"]

\* the state at the call of playGame(policies, simplified, random)
Called(in) ==
    /\ pc = "deal"
    /\ input = in
    /\ random = in.seed
    /\ state = NoState
    /\ recorder = NoRecorder
    /\ round = 0
    /\ turn = 0
    /\ played = 0
    /\ playLog = << >>
    /\ tricks = << >>
    /\ result = NoResult

Init ==
    /\ \E in \in Inputs : Called(in)
    /\ runs = 0
    /\ previous = NoResult
    /\ call = NoCall
    /\ ret = NoResult

\* the deck is built and shuffled, the hands dealt, the opening seat found
Deal ==
    /\ pc = "deal"
    /\ LET shuffled == shuffleDeck(freshDeck, random)
           players == [seat \in Seats |-> createPlayer(Slice(shuffled.deck, seat))]
           startingSeat == playerWithCard(players, clubs, 2)
       IN  /\ random' = shuffled.random
           /\ IF startingSeat = Null
              THEN /\ pc' = "failed"
                   /\ result' = Threw("The two of clubs was not dealt, so no start player can be determined")
                   /\ state' = state
              ELSE /\ pc' = "turn"
                   /\ result' = result
                   /\ state' = [players |-> players, trick |-> EmptyTrick,
                                simplified |-> input.simplified,
                                heartsBroken |-> FALSE, trickLeader |-> startingSeat]
    /\ UNCHANGED << input, recorder, round, turn, played, playLog, tricks, runs,
                    previous, call, ret >>

\* a loop that starts at seat 0 whoever leads
actingSeat_ignoresLeader(st, i) == i % 4

\* const player = players[(trickLeader + i) % 4]
actingSeat(st, i) == (st.trickLeader + i) % 4

\* a selection that plays the first offered card for a policy without candidate
chosenPlay_fallsBack(st, seat) ==
    LET play == selectPlay(Policy(input.policies[seat], st, seat, offeredPlays(st, seat)))
    IN  IF play = NoPlay THEN Summary(offeredPlays(st, seat)[1], 0, 0) ELSE play

\* the candidate playRound selects for the seat: the policy is handed the
\* offered plays and its candidate of the highest quality is kept
chosenPlay(st, seat) ==
    selectPlay(Policy(input.policies[seat], st, seat, offeredPlays(st, seat)))

\* one pass of playRound's loop over the four seats
PlayTurn ==
    /\ pc = "turn"
    /\ turn < 4
    /\ LET seat == actingSeat(state, turn)
           play == chosenPlay(state, seat)
       IN  IF play # NoPlay
           THEN /\ recorder' = recordAction(recorder, seat, state, play.action,
                                            play.quality, play.trace)
                /\ state' = playCard(state, seat, play)
                /\ played' = played + 1
                /\ playLog' = Append(playLog, [seat |-> seat, card |-> play.action])
                /\ turn' = turn + 1
                /\ pc' = IF turn + 1 = 4 THEN "resolve" ELSE "turn"
                /\ result' = result
           ELSE /\ pc' = "failed"
                /\ result' = Threw("No play was determined")
                /\ UNCHANGED << recorder, state, played, playLog, turn >>
    /\ UNCHANGED << input, random, round, tricks, runs, previous, call, ret >>

\* the end of playRound: the trick is resolved, rewarded and scored
ResolveTrick ==
    /\ pc = "resolve"
    /\ LET card == trickWinner(state.trick)
       IN  IF card = NoCard
           THEN /\ pc' = "failed"
                /\ result' = Threw("No trick winner could be determined at round end")
                /\ UNCHANGED << recorder, state, round, turn, tricks >>
           ELSE IF indexOf(state.trick.cards, card) = -1
           THEN /\ pc' = "failed"
                /\ result' = Threw("Trick winning card was not found in trick")
                /\ UNCHANGED << recorder, state, round, turn, tricks >>
           ELSE /\ recorder' = [seat \in Seats |->
                                   assignReward(recorder[seat], rewardFor(state, seat))]
                /\ state' = resolved(state)
                /\ tricks' = Append(tricks,
                        [leader  |-> state.trickLeader,
                         suit    |-> state.trick.suit,
                         cards   |-> state.trick.cards,
                         winner  |-> winningSeat(state),
                         rewards |-> [seat \in Seats |-> rewardFor(state, seat)]])
                /\ round' = round + 1
                /\ turn' = 0
                /\ pc' = IF round + 1 = 13 THEN "terminate" ELSE "turn"
                /\ result' = result
    /\ UNCHANGED << input, random, played, playLog, runs, previous, call, ret >>

\* state.players.map(player => player.terminate())
Terminate ==
    /\ pc = "terminate"
    /\ result' = Returned([seat \in Seats |->
                              terminate(recorder[seat], seat, state.players[seat])])
    /\ pc' = "done"
    /\ UNCHANGED << input, random, state, recorder, round, turn, played,
                    playLog, tricks, runs, previous, call, ret >>

Next == Deal \/ PlayTurn \/ ResolveTrick \/ Terminate

Spec == Init /\ [][Next]_vars

\* playGame up to its initial state, over many random sources: the seeds are
\* spread over the range of the source
DealSeeds == {(k * 439) % RandomModulus : k \in 0 .. MaxDealSeed}

InitDeal ==
    /\ \E seed \in DealSeeds, simplified \in BOOLEAN :
          Called([policies |-> [seat \in Seats |-> "first"],
                  simplified |-> simplified, seed |-> seed])
    /\ runs = 0
    /\ previous = NoResult
    /\ call = NoCall
    /\ ret = NoResult

NextDeal == Deal

SpecDeal == InitDeal /\ [][NextDeal]_vars

\* the caller calls playGame again with the same policies, the same simplified
\* flag and a random source that repeats the same sequence
Replay ==
    /\ pc \in {"done", "failed"}
    /\ runs = 0
    /\ runs' = runs + 1
    /\ previous' = [result |-> result, state |-> state, random |-> random]
    /\ pc' = "deal"
    /\ random' = input.seed
    /\ state' = NoState
    /\ recorder' = NoRecorder
    /\ round' = 0
    /\ turn' = 0
    /\ played' = 0
    /\ playLog' = << >>
    /\ tricks' = << >>
    /\ result' = NoResult
    /\ UNCHANGED << input, call, ret >>

NextTwoRuns == Next \/ Replay

SpecTwoRuns == Init /\ [][NextTwoRuns]_vars

-----------------------------------------------------------------------------
(* interpretHistory *)

RECURSIVE interpretHistory_emptyIsZero(_)
\* an interpreter that takes the empty history for a terminated one
interpretHistory_emptyIsZero(history) ==
    IF Len(history) = 0
    THEN Returned([reward |-> 0, feedBack |-> << >>, score |-> 0])
    ELSE LET head == Head(history)
             rest == interpretHistory_emptyIsZero(Tail(history))
         IN  IF head.terminal
             THEN Returned([reward |-> head.reward, feedBack |-> << >>,
                            score |-> head.actor.score])
             ELSE Returned([reward   |-> rest.value.reward + head.reward,
                            feedBack |-> Append(rest.value.feedBack,
                                [actual |-> rest.value.reward, expected |-> head.quality,
                                 reward |-> head.reward, trace |-> head.trace,
                                 state |-> head.state, actor |-> head.actor,
                                 action |-> head.action]),
                            score    |-> rest.value.score])

RECURSIVE interpretHistory_addsFirst(_)
\* an interpreter that adds the entry's reward before it records `actual`
interpretHistory_addsFirst(history) ==
    IF Len(history) = 0
    THEN Threw("Game history is empty or was not terminated")
    ELSE LET head == Head(history)
         IN  IF head.terminal
             THEN Returned([reward |-> head.reward, feedBack |-> << >>,
                            score |-> head.actor.score])
             ELSE LET rest == interpretHistory_addsFirst(Tail(history))
                  IN  IF rest.kind = "error" THEN rest
                      ELSE Returned([reward   |-> rest.value.reward + head.reward,
                                     feedBack |-> Append(rest.value.feedBack,
                                         [actual |-> rest.value.reward + head.reward,
                                          expected |-> head.quality,
                                          reward |-> head.reward, trace |-> head.trace,
                                          state |-> head.state, actor |-> head.actor,
                                          action |-> head.action]),
                                     score    |-> rest.value.score])

RECURSIVE interpretHistory_unshifts(_)
\* an interpreter that puts each record at the front of feedBack
interpretHistory_unshifts(history) ==
    IF Len(history) = 0
    THEN Threw("Game history is empty or was not terminated")
    ELSE LET head == Head(history)
         IN  IF head.terminal
             THEN Returned([reward |-> head.reward, feedBack |-> << >>,
                            score |-> head.actor.score])
             ELSE LET rest == interpretHistory_unshifts(Tail(history))
                  IN  IF rest.kind = "error" THEN rest
                      ELSE Returned([reward   |-> rest.value.reward + head.reward,
                                     feedBack |-> <<
                                         [actual |-> rest.value.reward,
                                          expected |-> head.quality,
                                          reward |-> head.reward, trace |-> head.trace,
                                          state |-> head.state, actor |-> head.actor,
                                          action |-> head.action] >>
                                         \o rest.value.feedBack,
                                     score    |-> rest.value.score])

RECURSIVE interpretHistory(_)
\* Converts the history of a player into feedback for every action taken.
\* A throw in the recursive call leaves the function at once.
interpretHistory(history) ==
    IF Len(history) = 0
    THEN Threw("Game history is empty or was not terminated")
    ELSE LET head == Head(history)
         IN  IF head.terminal
             THEN Returned([reward |-> head.reward, feedBack |-> << >>,
                            score |-> head.actor.score])
             ELSE LET rest == interpretHistory(Tail(history))
                  IN  IF rest.kind = "error" THEN rest
                      ELSE Returned([reward   |-> rest.value.reward + head.reward,
                                     feedBack |-> Append(rest.value.feedBack,
                                         [actual |-> rest.value.reward,
                                          expected |-> head.quality,
                                          reward |-> head.reward, trace |-> head.trace,
                                          state |-> head.state, actor |-> head.actor,
                                          action |-> head.action]),
                                     score    |-> rest.value.score])

-----------------------------------------------------------------------------
(* The functions called on their own *)

\* no game is running
NoGame ==
    /\ pc = "idle"
    /\ input = [policies |-> [seat \in Seats |-> "first"], simplified |-> FALSE, seed |-> 0]
    /\ random = 0
    /\ state = NoState
    /\ recorder = NoRecorder
    /\ round = 0
    /\ turn = 0
    /\ played = 0
    /\ playLog = << >>
    /\ tricks = << >>
    /\ result = NoResult
    /\ runs = 0
    /\ previous = NoResult

SeqsUpTo(S, n) == UNION {[1 .. k -> S] : k \in 0 .. n}

\* the cards of the tricks handed to trickWinner
TrickCards == [suit : {clubs, hearts}, rank : {3, 12, 14}]

\* the cards of the hands handed to validPlays
HandCards == [suit : Suits, rank : {3, 12}]

TrickInputs == [suit : Suits \cup {Null}, cards : SeqsUpTo(TrickCards, MaxTrick)]

\* a hand holds no card twice
HandInputs ==
    {hand \in SeqsUpTo(HandCards, MaxHand) :
        \A k, l \in DOMAIN hand : k # l => hand[k] # hand[l]}

RuleCalls ==
    [fn : {"trickWinner"}, trick : TrickInputs]
    \cup [fn : {"validPlays"}, suit : Suits \cup {Null}, simplified : BOOLEAN,
          heartsBroken : BOOLEAN, hand : HandInputs]

InitRules ==
    /\ NoGame
    /\ call \in RuleCalls
    /\ ret = NoResult

CallTrickWinner ==
    /\ call.fn = "trickWinner"
    /\ ret = NoResult
    /\ ret' = Returned(trickWinner(call.trick))
    /\ UNCHANGED << pc, input, random, state, recorder, round, turn, played,
                    playLog, tricks, result, runs, previous, call >>

CallValidPlays ==
    /\ call.fn = "validPlays"
    /\ ret = NoResult
    /\ ret' = Returned(validPlays(
                  [trick |-> [suit |-> call.suit, cards |-> << >>],
                   simplified |-> call.simplified,
                   heartsBroken |-> call.heartsBroken], call.hand))
    /\ UNCHANGED << pc, input, random, state, recorder, round, turn, played,
                    playLog, tricks, result, runs, previous, call >>

NextRules == CallTrickWinner \/ CallValidPlays

SpecRules == InitRules /\ [][NextRules]_vars

\* the entries of the histories handed to interpretHistory
HistoryEntries ==
    [terminal : {FALSE}, state : {NoState}, actor : {0}, action : {Card(clubs, 2)},
     quality : {0, 3}, reward : {-4, 2}, trace : {1, 2}]
    \cup [terminal : {TRUE}, reward : {0, 1}, actor : [seat : {0}, score : {0, 5}]]

InitInterpret ==
    /\ NoGame
    /\ call \in [fn : {"interpretHistory"}, history : SeqsUpTo(HistoryEntries, MaxHistory)]
    /\ ret = NoResult

CallInterpretHistory ==
    /\ call.fn = "interpretHistory"
    /\ ret = NoResult
    /\ ret' = interpretHistory(call.history)
    /\ UNCHANGED << pc, input, random, state, recorder, round, turn, played,
                    playLog, tricks, result, runs, previous, call >>

NextInterpret == CallInterpretHistory

SpecInterpret == InitInterpret /\ [][NextInterpret]_vars

-----------------------------------------------------------------------------
(* The claims about playGame *)

\* every policy returns candidates drawn from the offered plays
CompliantInput == \A seat \in Seats : input.policies[seat] \in Compliant

HandsEmpty == \A seat \in Seats : state.players[seat].hand = << >>

FullGame ==
    /\ played = 52
    /\ round = 13
    /\ HandsEmpty
    /\ result.kind = "value"

\* playGame stands where a step is enabled: Deal, PlayTurn (turn < 4),
\* ResolveTrick or Terminate
Running ==
    \/ pc \in {"deal", "resolve", "terminate"}
    \/ pc = "turn" /\ turn < 4

\* C1: with policies that return at least one candidate drawn from the
\* offered plays, playGame never throws; until it has returned it can always
\* take its next step, every step being the deal, one more playCard call, one
\* more resolved round or the return, so that it ends; and when it has
\* returned, exactly 13 rounds and 52 playCard calls were made and the four
\* hands are empty.
C1_FullGame ==
    CompliantInput =>
        /\ pc # "failed"
        /\ pc = "done" \/ Running
        /\ pc = "done" => FullGame
        /\ pc \in {"turn", "resolve"} => round < 13 /\ played = 4 * round + turn
        /\ pc = "resolve" => turn = 4
        /\ pc = "terminate" => round = 13 /\ played = 52

C1_Witness == pc = "done" /\ CompliantInput /\ FullGame

SumScores ==
    state.players[0].score + state.players[1].score
        + state.players[2].score + state.players[3].score

\* the sum of cardPoints over the 52 cards of the deck
DeckPoints(simp) == trickPointsOf(freshDeck, simp)

\* C2: at the end of a full game the four scores sum to the points of the
\* whole deck, which is 26 in standard mode.
C2_ScoresSumToDeckPoints ==
    pc = "done" /\ CompliantInput =>
        /\ SumScores = DeckPoints(state.simplified)
        /\ ~state.simplified => SumScores = 26

C2_Witness ==
    /\ pc = "done"
    /\ CompliantInput
    /\ ~state.simplified
    /\ SumScores = 26
    /\ Cardinality({seat \in Seats : state.players[seat].score > 0}) >= 3

\* the entry was a play among validPlays of the state it was decided in
LegalEntry(seat, entry) ==
    entry.action \in Range(validPlays(entry.state, entry.state.players[seat].hand))

\* C3 as stated: every card applied through playCard is an element of
\* validPlays(state, actor.hand) at decision time, whatever the policies do.
C3_AllPlaysLegal ==
    \A seat \in Seats : \A k \in DOMAIN recorder[seat] :
        LegalEntry(seat, recorder[seat][k])

\* C3 amended: the card applied is an element of validPlays(state, actor.hand)
\* at decision time for every seat whose policy returns only candidates
\* drawn from the plays it was offered.
C3_CompliantPlaysLegal ==
    \A seat \in Seats :
        input.policies[seat] \in Compliant =>
            \A k \in DOMAIN recorder[seat] : LegalEntry(seat, recorder[seat][k])

\* a compliant seat played when only part of its hand was legal, in a game
\* where another seat breaks the contract
C3_Witness ==
    /\ \E seat \in Seats : input.policies[seat] = "rogue"
    /\ \E seat \in Seats :
          /\ input.policies[seat] \in Compliant
          /\ \E k \in DOMAIN recorder[seat] :
                LET entry == recorder[seat][k]
                    hand  == entry.state.players[seat].hand
                IN  /\ Len(validPlays(entry.state, hand)) < Len(hand)
                    /\ LegalEntry(seat, entry)

-----------------------------------------------------------------------------
(* The claims about the tricks of a game *)

\* the points of a logged trick: one per heart, thirteen for the queen of
\* spades in standard mode
PointsIn(cards) ==
    Cardinality({k \in DOMAIN cards : cards[k].suit = hearts})
    + (IF state.simplified THEN 0
       ELSE 13 * Cardinality({k \in DOMAIN cards : cards[k] = Card(spades, 12)}))

\* the places (from 1) of a trick's cards of the suit led that none outranks
TopPlaces(cards) ==
    {k \in DOMAIN cards :
        /\ cards[k].suit = cards[1].suit
        /\ \A l \in DOMAIN cards :
              cards[l].suit = cards[1].suit => cards[l].rank <= cards[k].rank}

\* the seat that won a logged trick: the first to play the top card of the suit led
WonBy(t) ==
    (t.leader + (CHOOSE k \in TopPlaces(t.cards) :
                    \A l \in TopPlaces(t.cards) : k <= l) - 1) % 4

\* the reward a seat is due for a logged trick, in quarter units
RewardDue(t, seat) ==
    IF PointsIn(t.cards) # 0 /\ seat = WonBy(t)
    THEN 0 - 4 * PointsIn(t.cards)
    ELSE IF state.simplified THEN 1 ELSE 2

\* C12: each resolved trick gave every seat one reward: -points to its
\* winner when it held points, the bonus 0.5 (standard) or 0.25 (simplified)
\* to every other seat and to the winner of a trick without points.  No
\* reward is given at another moment: a seat's k-th recorded play holds the
\* reward of the k-th trick once that trick is resolved, and none before.
C12_OneRewardPerTrick ==
    /\ Len(tricks) = round
    /\ \A k \in DOMAIN tricks : \A seat \in Seats :
          tricks[k].rewards[seat] = RewardDue(tricks[k], seat)
    /\ \A seat \in Seats : \A k \in DOMAIN recorder[seat] :
          recorder[seat][k].reward =
              IF k <= Len(tricks) THEN tricks[k].rewards[seat] ELSE 0

\* a standard game in which one trick without points and one with points
\* are resolved and a third is under way
C12_Witness ==
    /\ ~state.simplified
    /\ pc = "turn"
    /\ turn = 2
    /\ \E k \in DOMAIN tricks : PointsIn(tricks[k].cards) = 0
    /\ \E k \in DOMAIN tricks :
          /\ PointsIn(tricks[k].cards) >= 13
          /\ tricks[k].rewards[WonBy(tricks[k])] = 0 - 4 * PointsIn(tricks[k].cards)
    /\ \E seat \in Seats :
          /\ Len(recorder[seat]) = Len(tricks) + 1
          /\ recorder[seat][Len(tricks)].reward = 2

Scores(st) == [seat \in Seats |-> st.players[seat].score]

RECURSIVE PointsWon(_, _)
\* the points of the first n logged tricks that the seat won
PointsWon(seat, n) ==
    IF n = 0 THEN 0
    ELSE PointsWon(seat, n - 1)
         + (IF WonBy(tricks[n]) = seat THEN PointsIn(tricks[n].cards) ELSE 0)

\* the trick on the table, as it will be logged
OnTable == [leader |-> state.trickLeader, cards |-> state.trick.cards]

\* C13: a score changes only at a trick's resolution, where the winner's
\* score grows by the points of the trick and the three other scores stay;
\* playCard changes no score.  So no score ever falls, and every score is
\* the sum of the points of the cards of the tricks the seat has won.
C13_ScoreIsPointsWon ==
    /\ [](\A seat \in Seats : state.players[seat].score = PointsWon(seat, Len(tricks)))
    /\ [][ /\ pc # "resolve" => Scores(state') = Scores(state)
           /\ pc = "resolve" =>
                \A seat \in Seats :
                    Scores(state')[seat] = Scores(state)[seat]
                        + (IF seat = WonBy(OnTable) THEN PointsIn(state.trick.cards) ELSE 0)
           /\ \A seat \in Seats : Scores(state')[seat] >= Scores(state)[seat] ]_vars

\* two seats have won points, one of them in two tricks or more, and a
\* card of the next trick is played
C13_Witness ==
    /\ pc = "turn"
    /\ turn = 1
    /\ \E seat \in Seats :
          /\ state.players[seat].score >= 14
          /\ Cardinality({k \in DOMAIN tricks :
                 WonBy(tricks[k]) = seat /\ PointsIn(tricks[k].cards) > 0}) >= 2
          /\ \E other \in Seats \ {seat} : state.players[other].score > 0
          /\ \E k \in DOMAIN tricks : tricks[k].leader # seat /\ WonBy(tricks[k]) = seat

IntegrityErrors ==
    {"No trick winner could be determined at round end",
     "Trick winning card was not found in trick",
     "No player could be associated with the card that won the trick"}

\* (index of the winning card in the trick + trickLeader) mod 4
ComputedSeat == (indexOf(state.trick.cards, trickWinner(state.trick)) + state.trickLeader) % 4

\* the playCard call that put the card at place `index` (from 0) of the trick on the table
PlayAt(index) == playLog[Len(playLog) - Len(state.trick.cards) + index + 1]

\* C14: every resolution finds a winning card, and none of the integrity
\* errors is ever thrown; the seat computed from the card's index and the
\* leader is the seat whose playCard call put that card there; the new state
\* has that seat as trickLeader and an empty trick without suit, and the
\* hands, heartsBroken and simplified are those of the state before.
C14_Resolution ==
    /\ [](result.kind = "error" => result.message \notin IntegrityErrors)
    /\ [][ pc = "resolve" =>
             /\ pc' \in {"turn", "terminate"}
             /\ trickWinner(state.trick) \in Range(state.trick.cards)
             /\ PlayAt(indexOf(state.trick.cards, trickWinner(state.trick)))
                    = [seat |-> ComputedSeat, card |-> trickWinner(state.trick)]
             /\ state'.trickLeader = ComputedSeat
             /\ state'.trick = [suit |-> Null, cards |-> << >>]
             /\ \A seat \in Seats :
                    /\ state'.players[seat].hand = state.players[seat].hand
                    /\ state'.players[seat].playsOutOfSuit = state.players[seat].playsOutOfSuit
             /\ state'.heartsBroken = state.heartsBroken
             /\ state'.simplified = state.simplified ]_vars

\* a trick was won by the third card played into it, by a seat that did not
\* lead it, after hearts were broken, and that seat now leads
C14_Witness ==
    /\ pc = "turn"
    /\ turn = 0
    /\ round >= 1
    /\ state.heartsBroken
    /\ state.trick = EmptyTrick
    /\ LET t == tricks[Len(tricks)]
       IN  /\ t.winner = (t.leader + 2) % 4
           /\ t.leader = 3
           /\ state.trickLeader = t.winner
           /\ playLog[Len(playLog) - 1].seat = t.winner

\* some card played so far in this game carries points
PointCardPlayed ==
    \E k \in DOMAIN playLog : cardPoints(playLog[k].card, state.simplified) # 0

\* C15: heartsBroken is false when the game starts; in every state it is true
\* exactly when a card with nonzero cardPoints, under the game's simplified
\* flag, has been played in this game; no step, a trick resolution included,
\* takes it from true to false.
C15_HeartsBrokenOneWay ==
    /\ [](played = 0 => ~state.heartsBroken)
    /\ [](state.heartsBroken <=> PointCardPlayed)
    /\ [][state.heartsBroken => state'.heartsBroken]_vars

\* hearts were broken in an earlier trick, the last trick resolved carried no
\* point, and the flag still stands in the trick after it
C15_Witness ==
    /\ pc = "turn"
    /\ turn = 2
    /\ round >= 2
    /\ state.heartsBroken
    /\ PointsIn(tricks[Len(tricks)].cards) = 0
    /\ PointsIn(state.trick.cards) = 0
    /\ PointsIn(tricks[Len(tricks) - 1].cards) > 0

\* C16: the cards of the trick on the table were played in the order leader,
\* leader + 1, leader + 2, leader + 3 (mod 4), the i-th card (from 0) by seat
\* (trickLeader + i) mod 4, so that a full trick has one card of each seat; a
\* trick never holds more than 4 cards; its suit is the suit of its first
\* card; and a trick is resolved only when it holds exactly 4 cards.
C16_LeaderRelativeOrder ==
    /\ [](LET cards == state.trick.cards
          IN  /\ Len(cards) <= 4
              /\ pc \in {"turn", "resolve"} => Len(cards) = turn
              /\ \A i \in 0 .. Len(cards) - 1 :
                     PlayAt(i) = [seat |-> (state.trickLeader + i) % 4, card |-> cards[i + 1]]
              /\ Len(cards) = 4 => {PlayAt(i).seat : i \in 0 .. 3} = Seats
              /\ state.trick.suit = IF cards = << >> THEN Null ELSE cards[1].suit
              /\ pc = "resolve" => Len(cards) = 4
              /\ \A n \in DOMAIN tricks : Len(tricks[n].cards) = 4)
    /\ [][tricks' # tricks => Len(state.trick.cards) = 4]_vars

\* a full trick led by seat 2, in a later round, is about to be resolved
C16_Witness ==
    /\ pc = "resolve"
    /\ round >= 1
    /\ state.trickLeader = 2
    /\ Len(state.trick.cards) = 4
    /\ << PlayAt(0).seat, PlayAt(1).seat, PlayAt(2).seat, PlayAt(3).seat >> = << 2, 3, 0, 1 >>

\* the cards of all four hands
Held == UNION {Range(state.players[seat].hand) : seat \in Seats}

\* C17: whatever the random source, the deal hands out all 52 cards, 13 to
\* each seat, so the failure 'two of clubs was not dealt' does not happen; in
\* the initial state trickLeader is the seat whose hand holds the two of
\* clubs, the trick is empty without suit and heartsBroken is false.
C17_OpeningSeat ==
    /\ pc # "failed"
    /\ result = NoResult
    /\ pc = "turn" =>
          /\ Held = Cards
          /\ \A seat \in Seats : Len(state.players[seat].hand) = 13
          /\ \A seat \in Seats :
                seat = state.trickLeader
                    <=> Card(clubs, 2) \in Range(state.players[seat].hand)
          /\ state.trick = [suit |-> Null, cards |-> << >>]
          /\ ~state.heartsBroken
          /\ state.simplified = input.simplified

\* a deal that gave the two of clubs to the last seat, which a two of another
\* suit in an earlier hand did not take the lead from
C17_Witness ==
    /\ pc = "turn"
    /\ state.trickLeader = 3
    /\ Card(clubs, 2) \in Range(state.players[3].hand)
    /\ \E s \in Suits : Card(s, 2) \in Range(state.players[0].hand)

\* the policy of the seat to act returns no candidate
NoCandidate ==
    /\ pc = "turn"
    /\ turn < 4
    /\ LET seat == actingSeat(state, turn)
       IN  Policy(input.policies[seat], state, seat, offeredPlays(state, seat)) = << >>

\* C18: when the policy of the seat to act returns no candidate, the game
\* fails at once with 'No play was determined': that step plays no card and
\* records nothing, no step follows it, so no trick is resolved and no reward
\* assigned after it, and the outcome of playGame is the failure, never a
\* collection of Histories.
C18_NoPlayAborts ==
    /\ [][NoCandidate =>
            /\ pc' = "failed"
            /\ result' = Threw("No play was determined")
            /\ UNCHANGED << state, recorder, played, playLog, tricks, round, turn >>]_vars
    /\ [][pc # "failed"]_vars
    /\ [](pc = "failed" => result.kind = "error")
    /\ [](result.kind = "value" => pc = "done")

\* a game that failed in its third trick, after two tricks were resolved and
\* rewarded and two cards of the third were played
C18_Witness ==
    /\ pc = "failed"
    /\ result = Threw("No play was determined")
    /\ Len(tricks) = 2
    /\ Len(state.trick.cards) = 2
    /\ played = 10
    /\ \E seat \in Seats : \E k \in DOMAIN recorder[seat] : recorder[seat][k].reward # 0

\* the playsOutOfSuit flag of a seat for a suit
Flag(st, seat, s) == st.players[seat].playsOutOfSuit[s]

\* C19: in a game whose policies choose among the offered plays, a seat whose
\* playsOutOfSuit flag for suit s is true holds no card of suit s.  Whatever
\* the policies, a play sets the flag of the actor for s exactly when the trick
\* had the established suit s and the card played is of another suit, it
\* leaves every other flag as it was, and no step clears a flag.
C19_PlaysOutOfSuit ==
    /\ [](CompliantInput =>
            \A seat \in Seats, s \in Suits :
                Flag(state, seat, s) =>
                    \A k \in DOMAIN state.players[seat].hand :
                        state.players[seat].hand[k].suit # s)
    /\ [][playLog' # playLog =>
            LET actor == actingSeat(state, turn)
                card == playLog'[Len(playLog')].card
            IN  \A seat \in Seats, s \in Suits :
                    Flag(state', seat, s) <=>
                        \/ Flag(state, seat, s)
                        \/ /\ seat = actor
                           /\ state.trick.suit = s
                           /\ card.suit # s]_vars
    /\ [][\A seat \in Seats, s \in Suits :
              Flag(state, seat, s) => Flag(state', seat, s)]_vars

\* in a game of compliant policies the seat to act is known to be out of the
\* suit led, from a trick resolved earlier, and still holds cards
C19_Witness ==
    /\ CompliantInput
    /\ pc = "turn"
    /\ turn \in 1 .. 3
    /\ Len(tricks) >= 2
    /\ LET seat == actingSeat(state, turn)
       IN  /\ Flag(state, seat, state.trick.suit)
           /\ state.players[seat].hand # << >>
           /\ \E n \in DOMAIN tricks : \E i \in 1 .. 4 :
                  /\ (tricks[n].leader + i - 1) % 4 = seat
                  /\ tricks[n].suit = state.trick.suit
                  /\ tricks[n].cards[i].suit # state.trick.suit

\* the cards played so far, in order
PlayedCards == [k \in DOMAIN playLog |-> playLog[k].card]

RECURSIVE CardsOfTricks(_)
\* the cards of the first n resolved tricks, in order
CardsOfTricks(n) ==
    IF n = 0 THEN << >> ELSE CardsOfTricks(n - 1) \o tricks[n].cards

\* no position of the sequence repeats an earlier one
NoRepeat(seq) == \A k, l \in DOMAIN seq : seq[k] = seq[l] => k = l

\* the hands and the cards played partition the deck
Partition ==
    /\ \A seat \in Seats : NoRepeat(state.players[seat].hand)
    /\ \A seat, other \in Seats :
          seat # other =>
              Range(state.players[seat].hand) \cap Range(state.players[other].hand) = {}
    /\ NoRepeat(PlayedCards)
    /\ Held \cap Range(PlayedCards) = {}
    /\ Held \cup Range(PlayedCards) = Cards

\* the cards of a game in a state after the deal
Conserved ==
    /\ played = 0 => \A seat \in Seats : Len(state.players[seat].hand) = 13
    /\ PlayedCards = CardsOfTricks(Len(tricks)) \o state.trick.cards
    /\ Partition
    /\ state.trick.cards = << >> =>
          \A seat \in Seats : Len(state.players[seat].hand) = 13 - Len(tricks)

\* the step plays a card: it takes that one card out of the hand of the seat
\* that acts and leaves the other hands as they were
TakesPlayedCard ==
    LET actor == actingSeat(state, turn)
        card == playLog'[Len(playLog')].card
    IN  /\ Len(state'.players[actor].hand) = Len(state.players[actor].hand) - 1
        /\ \A seat \in Seats :
              state'.players[seat].hand =
                  IF seat = actor
                  THEN Filter(state.players[seat].hand,
                              Range(state.players[seat].hand) \ {card})
                  ELSE state.players[seat].hand

\* C20 as stated: in every game the hands and the cards played partition the
\* deck, a play takes exactly the played card out of the actor's hand, no card
\* is played twice, and between tricks every hand has 13 cards less the number
\* of tricks resolved.
C20_CardsConserved ==
    /\ [](pc # "deal" => Conserved)
    /\ [][playLog' # playLog => TakesPlayedCard]_vars

\* every policy of the game answers with cards of the acting seat's own hand
OwnCards == \A seat \in Seats : input.policies[seat] # "thief"

\* C20: in a game whose policies answer only with cards of the acting seat's
\* own hand, the four hands have 13 cards each after the deal, the hands and
\* the cards played (the resolved tricks, then the trick on the table)
\* partition the deck in every state, a play takes exactly the played card out
\* of the actor's hand and touches no other hand, no card is played twice, and
\* between tricks every hand has 13 cards less the number of tricks resolved.
C20_OwnCardsConserved ==
    /\ [](OwnCards /\ pc # "deal" => Conserved)
    /\ [][OwnCards /\ playLog' # playLog => TakesPlayedCard]_vars

\* a game in which one seat plays cards of its hand that were not offered,
\* in the middle of its fourth trick
C20_Witness ==
    /\ OwnCards
    /\ \E seat \in Seats : input.policies[seat] = "rogue"
    /\ pc = "turn"
    /\ Len(tricks) = 3
    /\ Len(state.trick.cards) = 2
    /\ Partition

-----------------------------------------------------------------------------
(* The claims about the rules engine *)

OfSuit(cards, suit) == {c \in Range(cards) : c.suit = suit}

\* C4: for a trick with an established suit and at least one card of that
\* suit, trickWinner returns a card of the trick that has the trick's suit
\* and whose rank no card of that suit in the trick exceeds.
C4_WinnerIsHighestOfSuit ==
    ( /\ call.fn = "trickWinner"
      /\ ret.kind = "value"
      /\ call.trick.suit # Null
      /\ OfSuit(call.trick.cards, call.trick.suit) # {} )
    => /\ ret.value \in OfSuit(call.trick.cards, call.trick.suit)
       /\ \A c \in OfSuit(call.trick.cards, call.trick.suit) : c.rank <= ret.value.rank

\* a card of another suit outranks every card of the trick's suit, and loses
C4_Witness ==
    /\ call.fn = "trickWinner"
    /\ ret.kind = "value"
    /\ call.trick.suit # Null
    /\ Cardinality(OfSuit(call.trick.cards, call.trick.suit)) >= 2
    /\ \E c \in Range(call.trick.cards) :
          /\ c.suit # call.trick.suit
          /\ \A d \in OfSuit(call.trick.cards, call.trick.suit) : c.rank > d.rank
    /\ ret.value.suit = call.trick.suit

\* C5: with an established suit, validPlays returns exactly the cards of the
\* hand of that suit, each once, when the hand holds one, and the whole hand
\* when it holds none, whatever simplified and heartsBroken are.
C5_FollowSuit ==
    ( /\ call.fn = "validPlays"
      /\ ret.kind = "value"
      /\ call.suit # Null )
    => IF OfSuit(call.hand, call.suit) # {}
       THEN /\ Range(ret.value) = OfSuit(call.hand, call.suit)
            /\ Len(ret.value) = Cardinality(OfSuit(call.hand, call.suit))
       ELSE ret.value = call.hand

\* a hand of both kinds of cards, led into before hearts are broken
C5_Witness ==
    /\ call.fn = "validPlays"
    /\ ret.kind = "value"
    /\ call.suit = clubs
    /\ ~call.simplified
    /\ ~call.heartsBroken
    /\ OfSuit(call.hand, clubs) # {}
    /\ OfSuit(call.hand, hearts) # {}
    /\ Range(ret.value) = OfSuit(call.hand, clubs)

ZeroPoint(hand, simp) == {c \in Range(hand) : cardPoints(c, simp) = 0}

\* C6: on the lead, validPlays returns the whole hand when simplified or
\* heartsBroken is set or when every card of the hand bears points, and
\* otherwise exactly the cards of the hand worth no point; and validPlays of
\* a hand that is not empty is never empty.
C6_Lead ==
    ( /\ call.fn = "validPlays"
      /\ ret.kind = "value" )
    => /\ call.suit = Null =>
            IF call.simplified \/ call.heartsBroken
                 \/ ZeroPoint(call.hand, call.simplified) = {}
            THEN ret.value = call.hand
            ELSE /\ Range(ret.value) = ZeroPoint(call.hand, call.simplified)
                 /\ Len(ret.value) = Cardinality(ZeroPoint(call.hand, call.simplified))
       /\ call.hand # << >> => ret.value # << >>

\* a lead from a hand of point cards only, before hearts are broken
C6_Witness ==
    /\ call.fn = "validPlays"
    /\ ret.kind = "value"
    /\ call.suit = Null
    /\ ~call.simplified
    /\ ~call.heartsBroken
    /\ Len(call.hand) >= 2
    /\ Card(spades, 12) \in Range(call.hand)
    /\ ZeroPoint(call.hand, FALSE) = {}
    /\ ret.value = call.hand

\* C11 as stated: trickWinner returns null only if the trick holds no card.
C11_NullOnlyIfEmpty ==
    call.fn = "trickWinner" /\ ret.kind = "value" =>
        (ret.value = NoCard => call.trick.cards = << >>)

\* the cards of the trick that the reduce may keep: all of them when the
\* trick has no suit, those of its suit otherwise
Eligible(trick) ==
    IF trick.suit = Null THEN Range(trick.cards)
    ELSE OfSuit(trick.cards, trick.suit)

\* C11 amended: trickWinner returns null exactly when the trick holds no
\* card of its suit (no card at all, when it has no suit); hence for a trick
\* whose suit is the suit of its first card, only if the trick is empty.
C11_NullIffNoCardOfSuit ==
    call.fn = "trickWinner" /\ ret.kind = "value" =>
        /\ ret.value = NoCard <=> Eligible(call.trick) = {}
        /\ ( /\ call.trick.cards # << >>
              /\ call.trick.suit = call.trick.cards[1].suit ) => ret.value # NoCard

\* a trick of four cards, none of its suit, has no winner; so has none
C11_Witness ==
    /\ call.fn = "trickWinner"
    /\ ret.kind = "value"
    /\ Len(call.trick.cards) = 4
    /\ call.trick.suit = hearts
    /\ OfSuit(call.trick.cards, hearts) = {}
    /\ ret.value = NoCard

-----------------------------------------------------------------------------
(* The claims about interpretHistory *)

\* n >= 0 entries that are not terminal, then one terminal entry
Sealed(history) ==
    /\ Len(history) >= 1
    /\ history[Len(history)].terminal
    /\ \A k \in 1 .. Len(history) - 1 : ~history[k].terminal

RECURSIVE RewardsFrom(_, _)
\* the sum of the rewards of the entries from position `from` on
RewardsFrom(history, from) ==
    IF from > Len(history) THEN 0
    ELSE history[from].reward + RewardsFrom(history, from + 1)

Interpreted == call.fn = "interpretHistory" /\ ret.kind # "none"

\* the feedback record of the i-th entry of a sealed history of n + 1 entries
RecordOf(i) == ret.value.feedBack[Len(call.history) - i]

\* C7: for a sealed history [e1, ..., en, T] the reward returned is the sum of
\* the rewards of all its entries, T included; there are n feedback records
\* and the record of ei has expected = ei.quality, reward = ei.reward and
\* actual = the sum of the rewards of the entries after ei, T included; for
\* n = 0 feedBack is empty and the reward is T's.
C7_RunningReturn ==
    Interpreted /\ Sealed(call.history) =>
        /\ ret.kind = "value"
        /\ ret.value.reward = RewardsFrom(call.history, 1)
        /\ Len(ret.value.feedBack) = Len(call.history) - 1
        /\ \A i \in 1 .. Len(call.history) - 1 :
              /\ RecordOf(i).expected = call.history[i].quality
              /\ RecordOf(i).reward = call.history[i].reward
              /\ RecordOf(i).actual = RewardsFrom(call.history, i + 1)
        /\ Len(call.history) = 1 =>
              /\ ret.value.feedBack = << >>
              /\ ret.value.reward = call.history[1].reward

\* three entries of rewards that make the running returns differ
C7_Witness ==
    /\ Interpreted
    /\ Sealed(call.history)
    /\ Len(call.history) = 3
    /\ call.history[1].reward = 2
    /\ call.history[2].reward = -4
    /\ call.history[3].reward = 1
    /\ ret.value.reward = -1
    /\ RecordOf(1).actual = -3
    /\ RecordOf(2).actual = 1

\* C8: interpretHistory emits one feedback record per entry before the
\* terminal entry, the record of the entry just before the terminal entry
\* first: the k-th record carries the trace, state, actor, action, quality
\* and reward of the k-th entry counted back from the terminal entry.
C8_ReverseOrder ==
    Interpreted /\ Sealed(call.history) =>
        /\ ret.kind = "value"
        /\ DOMAIN ret.value.feedBack = 1 .. Len(call.history) - 1
        /\ \A k \in 1 .. Len(call.history) - 1 :
              LET entry == call.history[Len(call.history) - k]
                  record == ret.value.feedBack[k]
              IN  /\ record.trace = entry.trace
                  /\ record.state = entry.state
                  /\ record.actor = entry.actor
                  /\ record.action = entry.action
                  /\ record.expected = entry.quality
                  /\ record.reward = entry.reward

\* two entries told apart by their traces come back in the reverse order
C8_Witness ==
    /\ Interpreted
    /\ Sealed(call.history)
    /\ Len(call.history) = 3
    /\ call.history[1].trace = 1
    /\ call.history[2].trace = 2
    /\ ret.value.feedBack[1].trace = 2
    /\ ret.value.feedBack[2].trace = 1

NoTerminal(history) == \A k \in DOMAIN history : ~history[k].terminal

\* C9: interpretHistory throws, and returns nothing, for the empty history
\* and, with the same error, for a history that holds no terminal entry.
C9_FailsUnterminated ==
    Interpreted /\ NoTerminal(call.history) =>
        ret = Threw("Game history is empty or was not terminated")

\* a history of entries none of which is terminal
C9_Witness ==
    /\ Interpreted
    /\ Len(call.history) >= 2
    /\ NoTerminal(call.history)
    /\ ret.kind = "error"

-----------------------------------------------------------------------------
(* The claim about two runs of playGame *)

=============================================================================
